---- MODULE Spec2Model ----
(***************************************************************************)
(* A model of diederdas (src/diederdas-go.go): an interactive quiz on      *)
(* German articles.  The main goroutine loads a word catalog and a         *)
(* statistics record, runs a menu loop with quiz sessions, and saves the   *)
(* record on exit.  A second goroutine waits for SIGINT/SIGTERM, saves the *)
(* record and ends the process.                                            *)
(*                                                                         *)
(* Strings are TLA+ strings; the string functions of the Go library that   *)
(* the program calls (TrimSpace, ToLower, EqualFold, Atoi) are computed    *)
(* character by character.  A Word keeps the fields that decide behaviour  *)
(* (Word, Article, Difficulty); English, Category and Plural only change   *)
(* what is printed.                                                        *)
(***************************************************************************)
EXTENDS Integers, Sequences, FiniteSets, TLC

VARIABLES
    wordsFile,      \* words.json in the working directory
    altWordsFile,   \* words.json under the data directory (fallback)
    statsFile,      \* stats.json under the data directory
    words,          \* q.words
    stats,          \* *q.stats
    sessionStats,   \* q.sessionStats: correct, total, mistakes
    num,            \* StartQuiz argument numQuestions as the caller passed it
    difficulty,     \* StartQuiz argument difficulty
    fn,             \* the function running the session: StartQuiz or ShowPracticeMode
    shuffled,       \* shuffled (StartQuiz) / practiceWords (ShowPracticeMode)
    numQuestions,   \* the local numQuestions, after clamping
    i,              \* loop variable of the running loop (shuffle, then questions)
    answered,       \* the local answered
    msg,            \* the notice printed by the last step of main, "" for other output
    listing,        \* the most-missed words printed by the last step of main, in order
    pc,             \* position of the main goroutine
    mainExit,       \* the exit path the main goroutine is on
    sigpc,          \* position of the signal goroutine
    sigbuf,         \* the encoder's buffer in the signal goroutine
    term            \* how the process ended, or "running"

vars == <<wordsFile, altWordsFile, statsFile, words, stats, sessionStats, num,
          difficulty, fn, shuffled, numQuestions, i, answered, msg, listing, pc,
          mainExit, sigpc, sigbuf, term>>

(***************************************************************************)
(* Bounds of the model.                                                    *)
(***************************************************************************)
\* Sessions are started only while fewer than MaxQuizzes have been folded.
MaxQuizzes == 2

(***************************************************************************)
(* Program constants.                                                      *)
(***************************************************************************)
QuickQuestions == 10
CustomMin == 5
CustomMax == 50
CustomDefault == 10
PracticeQuestions == 10
RepeatCap == 3

Min(a, b) == IF a < b THEN a ELSE b

(***************************************************************************)
(* Strings.                                                                *)
(***************************************************************************)
Upper == "ABCDEFGHIJKLMNOPQRSTUVWXYZ"
Lowercase == "abcdefghijklmnopqrstuvwxyz"
Digits == "0123456789"

CharAt(s, k) == SubSeq(s, k, k)

\* 0 when c does not occur in s, else its first position
IndexOf(s, c) ==
    IF \E k \in 1..Len(s) : CharAt(s, k) = c
    THEN CHOOSE k \in 1..Len(s) :
             /\ CharAt(s, k) = c
             /\ \A j \in 1..(k - 1) : CharAt(s, j) # c
    ELSE 0

LowerChar(c) == IF IndexOf(Upper, c) > 0 THEN CharAt(Lowercase, IndexOf(Upper, c)) ELSE c

RECURSIVE ToLower(_)
ToLower(s) == IF Len(s) = 0 THEN s ELSE LowerChar(CharAt(s, 1)) \o ToLower(SubSeq(s, 2, Len(s)))

IsSpace(c) == c \in {" ", "\t", "\r", "\n"}

RECURSIVE TrimLeft(_)
TrimLeft(s) ==
    IF Len(s) > 0 /\ IsSpace(CharAt(s, 1)) THEN TrimLeft(SubSeq(s, 2, Len(s))) ELSE s

RECURSIVE TrimRight(_)
TrimRight(s) ==
    IF Len(s) > 0 /\ IsSpace(CharAt(s, Len(s))) THEN TrimRight(SubSeq(s, 1, Len(s) - 1)) ELSE s

TrimSpace(s) == TrimRight(TrimLeft(s))

EqualFold(a, b) == ToLower(a) = ToLower(b)

RECURSIVE DigitsValue(_, _)
DigitsValue(s, acc) ==
    IF Len(s) = 0 THEN acc
    ELSE DigitsValue(SubSeq(s, 2, Len(s)), acc * 10 + (IndexOf(Digits, CharAt(s, 1)) - 1))

AllDigits(s) == Len(s) > 0 /\ \A k \in 1..Len(s) : IndexOf(Digits, CharAt(s, k)) > 0

\* strconv.Atoi: an optional sign and decimal digits, nothing else
Atoi(s) ==
    LET signed == Len(s) > 0 /\ CharAt(s, 1) \in {"+", "-"}
        body == IF signed THEN SubSeq(s, 2, Len(s)) ELSE s
    IN  IF AllDigits(body)
        THEN [ok |-> TRUE,
              val |-> IF signed /\ CharAt(s, 1) = "-" THEN 0 - DigitsValue(body, 0)
                      ELSE DigitsValue(body, 0)]
        ELSE [ok |-> FALSE, val |-> 0]

(***************************************************************************)
(* The catalog.                                                            *)
(***************************************************************************)
Word(w, a, d) == [Word |-> w, Article |-> a, Difficulty |-> d]

Haus == Word("Haus", "das", "Easy")
Tisch == Word("Tisch", "der", "")
Lampe == Word("Lampe", "die", "easy")
Auto == Word("Auto", "das", "medium")
Blume == Word("Blume", "die", "EASY")
Hund == Word("Hund", "der", "Medium")

\* a words.json: whether it can be opened, whether it decodes, its data
WordsFile(e, v, d) == [exists |-> e, valid |-> v, data |-> d]
NoWordsFile == WordsFile(FALSE, FALSE, <<>>)

\* LoadWords: the error, or the catalog it stores in q.words
LoadWordsResult(primary, alt) ==
    IF ~primary.exists
    THEN IF alt.exists
         THEN IF ~alt.valid THEN [err |-> "decode_alt", words |-> <<>>]
              ELSE IF Len(alt.data) = 0 THEN [err |-> "empty_alt", words |-> <<>>]
              ELSE [err |-> "", words |-> alt.data]
         ELSE [err |-> "open", words |-> <<>>]
    ELSE IF ~primary.valid THEN [err |-> "decode", words |-> <<>>]
    ELSE IF Len(primary.data) = 0 THEN [err |-> "empty", words |-> <<>>]
    ELSE [err |-> "", words |-> primary.data]

(***************************************************************************)
(* The statistics record.  A Go map is nil or a table; a missing key reads *)
(* as 0.                                                                   *)
(***************************************************************************)
NilMap == [isNil |-> TRUE, kv |-> <<>>]
EmptyMap == [isNil |-> FALSE, kv |-> <<>>]
MapOf(f) == [isNil |-> FALSE, kv |-> f]

MapGet(m, k) == IF k \in DOMAIN m.kv THEN m.kv[k] ELSE 0

MapSet(m, k, v) ==
    [isNil |-> FALSE, kv |-> [x \in (DOMAIN m.kv) \cup {k} |-> IF x = k THEN v ELSE m.kv[x]]]

Stats(tq, tn, ca, ws) ==
    [TotalQuizzes |-> tq, TotalQuestions |-> tn, CorrectAnswers |-> ca, WordStats |-> ws]

\* &Stats{}
ZeroStats == Stats(0, 0, 0, NilMap)

\* NewQuiz: &Stats{WordStats: make(map[string]int)}
NewQuizStats == Stats(0, 0, 0, EmptyMap)

ensureStatsDefaults(st) ==
    IF st.WordStats.isNil THEN [st EXCEPT !.WordStats = EmptyMap] ELSE st

(***************************************************************************)
(* stats.json.  The text of the file is kept as the members of its JSON    *)
(* object, in the order written; closed says that the text is one complete *)
(* JSON value.  os.Create leaves an empty file, which is not.              *)
(***************************************************************************)
Member(k, kind, n, obj) == [key |-> k, kind |-> kind, n |-> n, obj |-> obj]
Pair(k, kind, n) == [key |-> k, kind |-> kind, n |-> n]

StatsFile(e, c, ms) == [exists |-> e, closed |-> c, members |-> ms]
NoStatsFile == StatsFile(FALSE, FALSE, <<>>)
TruncatedFile == StatsFile(TRUE, FALSE, <<>>)

\* byte order of the characters that occur in map keys
ByteOrder == " !()-0123456789?ABCDEFGHIJKLMNOPQRSTUVWXYZ_abcdefghijklmnopqrstuvwxyz"

RECURSIVE StrLess(_, _)
StrLess(a, b) ==
    IF Len(b) = 0 THEN FALSE
    ELSE IF Len(a) = 0 THEN TRUE
    ELSE IF CharAt(a, 1) = CharAt(b, 1) THEN StrLess(SubSeq(a, 2, Len(a)), SubSeq(b, 2, Len(b)))
    ELSE IndexOf(ByteOrder, CharAt(a, 1)) < IndexOf(ByteOrder, CharAt(b, 1))

RECURSIVE Sorted(_)
Sorted(S) ==
    IF S = {} THEN <<>>
    ELSE LET k == CHOOSE x \in S : \A y \in S \ {x} : StrLess(x, y)
         IN  <<k>> \o Sorted(S \ {k})

\* the strings that occur as map keys in the model, sorted once
Keys == {"Haus", "Tisch", "Lampe", "Auto", "Blume", "Hund", "Katze"}
KeyOrder == Sorted(Keys)

\* encoding/json writes a map with its keys sorted
SortedKeys(S) == SelectSeq(KeyOrder, LAMBDA k : k \in S)

EncodeMap(m) ==
    LET ks == SortedKeys(DOMAIN m.kv)
    IN  [j \in 1..Len(ks) |-> Pair(ks[j], "num", m.kv[ks[j]])]

EncodeDropsMap(st) ==
    <<Member("total_quizzes", "num", st.TotalQuizzes, <<>>),
      Member("total_questions", "num", st.TotalQuestions, <<>>),
      Member("correct_answers", "num", st.CorrectAnswers, <<>>),
      Member("word_stats", "obj", 0, <<>>)>>

\* json.Encoder.Encode(q.stats): the struct's fields in the order declared
Encode(st) ==
    <<Member("total_quizzes", "num", st.TotalQuizzes, <<>>),
      Member("total_questions", "num", st.TotalQuestions, <<>>),
      Member("correct_answers", "num", st.CorrectAnswers, <<>>),
      IF st.WordStats.isNil THEN Member("word_stats", "null", 0, <<>>)
      ELSE Member("word_stats", "obj", 0, EncodeMap(st.WordStats))>>

\* the elements of a JSON object stored into a map: a number is stored, null
\* and a value of another type store the zero value, the latter with an error
RECURSIVE DecodePairs(_, _, _)
DecodePairs(ps, m, err) ==
    IF Len(ps) = 0 THEN [m |-> m, err |-> err]
    ELSE LET p == Head(ps)
         IN  DecodePairs(Tail(ps),
                         MapSet(m, p.key, IF p.kind = "num" THEN p.n ELSE 0),
                         err \/ p.kind \notin {"num", "null"})

DecodeInt(old, m) ==
    [v |-> IF m.kind = "num" THEN m.n ELSE old, err |-> m.kind \notin {"num", "null"}]

\* one member of the object, matched to a field by its tag ignoring case; a
\* value of the wrong type leaves the field and records an error, and the
\* decoder goes on
DecodeMember(m, st) ==
    IF EqualFold(m.key, "total_quizzes")
    THEN [st |-> [st EXCEPT !.TotalQuizzes = DecodeInt(@, m).v], err |-> DecodeInt(0, m).err]
    ELSE IF EqualFold(m.key, "total_questions")
    THEN [st |-> [st EXCEPT !.TotalQuestions = DecodeInt(@, m).v], err |-> DecodeInt(0, m).err]
    ELSE IF EqualFold(m.key, "correct_answers")
    THEN [st |-> [st EXCEPT !.CorrectAnswers = DecodeInt(@, m).v], err |-> DecodeInt(0, m).err]
    ELSE IF EqualFold(m.key, "word_stats")
    THEN IF m.kind = "obj"
         THEN LET r == DecodePairs(m.obj, st.WordStats, FALSE)
              IN  [st |-> [st EXCEPT !.WordStats = r.m], err |-> r.err]
         ELSE IF m.kind = "null" THEN [st |-> [st EXCEPT !.WordStats = NilMap], err |-> FALSE]
         ELSE [st |-> st, err |-> TRUE]
    ELSE [st |-> st, err |-> FALSE]

RECURSIVE DecodeMembers(_, _, _)
DecodeMembers(ms, st, err) ==
    IF Len(ms) = 0 THEN [st |-> st, err |-> err]
    ELSE LET r == DecodeMember(Head(ms), st)
         IN  DecodeMembers(Tail(ms), r.st, err \/ r.err)

\* json.Decoder.Decode(q.stats): a text that is not one JSON value is an error
\* and stores nothing
Decode(file, st) ==
    IF ~file.closed THEN [st |-> st, err |-> TRUE]
    ELSE DecodeMembers(file.members, st, FALSE)


(***************************************************************************)
(* Reading a line (getInput).                                              *)
(***************************************************************************)
\* ReadString returned text and, with err, an error: a last line without a
\* newline is still returned; with nothing read the program saves and exits
getInput(text, err) ==
    [closed |-> err /\ TrimSpace(text) = "", line |-> TrimSpace(text)]

(***************************************************************************)
(* Choosing the questions.                                                 *)
(***************************************************************************)
FilterExact(ws, d) == SelectSeq(ws, LAMBDA w : w.Difficulty = d)
\* the entries whose difficulty is d, by strings.EqualFold, in catalog order
RECURSIVE FilterDifficulty(_, _)
FilterDifficulty(ws, d) ==
    IF Len(ws) = 0 THEN <<>>
    ELSE (IF EqualFold(Head(ws).Difficulty, d) THEN <<Head(ws)>> ELSE <<>>)
         \o FilterDifficulty(Tail(ws), d)

\* availableWords of StartQuiz and whether the fallback notice is printed
AvailableWords(ws, d) ==
    IF d # "" /\ Len(FilterDifficulty(ws, d)) > 0
    THEN [pool |-> FilterDifficulty(ws, d), notice |-> FALSE]
    ELSE [pool |-> ws, notice |-> d # ""]

NoClamp(n, len) == n
\* if numQuestions > len(...) { numQuestions = len(...) }
Clamp(n, len) == IF n > len THEN len ELSE n

\* s[a], s[b] = s[b], s[a], with Go's indices from 0
Swap(s, a, b) == [s EXCEPT ![a + 1] = s[b + 1], ![b + 1] = s[a + 1]]

RepeatsUncapped(m) == m + 1
\* repeats := mistakes + 1, capped to 3
Repeats(m) == IF m + 1 > RepeatCap THEN RepeatCap ELSE m + 1

\* a collection that keeps every catalog word, missed or not
ChallengingAll(ws, st) == ws
\* the catalog words with a positive mistake count, in catalog order
RECURSIVE Challenging(_, _)
Challenging(ws, st) ==
    IF Len(ws) = 0 THEN <<>>
    ELSE (IF MapGet(st.WordStats, Head(ws).Word) > 0 THEN <<Head(ws)>> ELSE <<>>)
         \o Challenging(Tail(ws), st)

RECURSIVE PracticeWords(_, _)
PracticeWords(ch, st) ==
    IF Len(ch) = 0 THEN <<>>
    ELSE [k \in 1..Repeats(MapGet(st.WordStats, Head(ch).Word)) |-> Head(ch)]
         \o PracticeWords(Tail(ch), st)

(***************************************************************************)
(* Grading.                                                                *)
(***************************************************************************)
parseArticle(in) ==
    LET a == TrimSpace(ToLower(in))
    IN  IF a \in {"1", "die", "f", "fem", "feminine"} THEN [article |-> "die", ok |-> TRUE]
        ELSE IF a \in {"2", "der", "r", "m", "masc", "masculine"} THEN [article |-> "der", ok |-> TRUE]
        ELSE IF a \in {"3", "das", "s", "n", "neut", "neuter"} THEN [article |-> "das", ok |-> TRUE]
        ELSE [article |-> "", ok |-> FALSE]

MistakeInfo(w, ua) == [word |-> w, userAnswer |-> ua, correctAnswer |-> w.Article]

SessionStats(c, t, ms) == [correct |-> c, total |-> t, mistakes |-> ms]

\* markWrong, on the session and on the lifetime record
ForgetMistake(ss, w, ua) == ss
markWrongSession(ss, w, ua) == [ss EXCEPT !.mistakes = Append(@, MistakeInfo(w, ua))]
MarkWrongUncounted(st, w) == st
markWrongStats(st, w) ==
    [st EXCEPT !.WordStats = MapSet(@, w.Word, MapGet(@, w.Word) + 1)]

KeepRequested(ss, a) == ss
\* "Early exit; count only answered so far": q.sessionStats.total = answered
EarlyExit(ss, a) == [ss EXCEPT !.total = a]

\* float64(c) / float64(t) * 100, by the class of the result: a division by
\* zero does not panic in Go, it yields NaN (0/0) or an infinity
Percentage(c, t) ==
    IF t # 0 THEN "finite" ELSE IF c = 0 THEN "NaN" ELSE "Inf"

\* what a line with a %.1f%% of p shows: the line, or the NaN or Inf in it
Printed(line, p) == IF p = "finite" THEN line ELSE p

\* ShowWelcome: the greeting
WelcomeNotice(st) ==
    IF st.TotalQuestions > 0
    THEN Printed("welcome_back", Percentage(st.CorrectAnswers, st.TotalQuestions))
    ELSE "welcome"

StatsNoticeUnguarded(st) ==
    Printed("accuracy", Percentage(st.CorrectAnswers, st.TotalQuestions))
\* ShowDetailedStats: no statistics yet, or the overall accuracy
StatsNotice(st) ==
    IF st.TotalQuestions = 0 THEN "no_statistics"
    ELSE Printed("accuracy", Percentage(st.CorrectAnswers, st.TotalQuestions))

(***************************************************************************)
(* ShowDetailedStats: the most-missed words.  The entries with a positive  *)
(* count are collected by ranging over the map, whose iteration order is   *)
(* not fixed, and sorted by count alone: entries of equal count may come   *)
(* in any order.                                                           *)
(***************************************************************************)
TopWords == 5

\* the entries c > 0 of the map
Missed(m) == {k \in DOMAIN m.kv : m.kv[k] > 0}

\* the orders sort.Slice may leave the entries S in: descending by count
RECURSIVE SortedByErrors(_, _)
SortedByErrors(S, m) ==
    IF S = {} THEN {<<>>}
    ELSE LET most == {k \in S : \A x \in S : m.kv[k] >= m.kv[x]}
         IN  UNION {{<<k>> \o rest : rest \in SortedByErrors(S \ {k}, m)} : k \in most}

\* a listing that is not cut
TopAll(n) == n
\* top := 5, or len(sorted) if that is less
Top(n) == IF n < TopWords THEN n ELSE TopWords

\* the line printed for an entry: the first catalog word of that name, none
\* if the catalog has no such word
RECURSIVE WordLine(_, _, _)
WordLine(ws, k, c) ==
    IF Len(ws) = 0 THEN <<>>
    ELSE IF Head(ws).Word = k
         THEN <<[Article |-> Head(ws).Article, Word |-> k, errors |-> c]>>
         ELSE WordLine(Tail(ws), k, c)

RECURSIVE TopLines(_, _, _)
TopLines(sorted, m, ws) ==
    IF Len(sorted) = 0 THEN <<>>
    ELSE WordLine(ws, Head(sorted), m.kv[Head(sorted)]) \o TopLines(Tail(sorted), m, ws)

\* the listings ShowDetailedStats may print for the record st and catalog ws
MostMissed(st, ws) ==
    LET m == st.WordStats
    IN  {TopLines(SubSeq(sorted, 1, Top(Len(sorted))), m, ws) :
            sorted \in SortedByErrors(Missed(m), m)}

\* showResults, the three updates of the lifetime record
AddQuizzes(st) == [st EXCEPT !.TotalQuizzes = @ + 1]
SetQuestions(st, ss) == [st EXCEPT !.TotalQuestions = ss.total]
AddQuestions(st, ss) == [st EXCEPT !.TotalQuestions = @ + ss.total]
AddCorrect(st, ss) == [st EXCEPT !.CorrectAnswers = @ + ss.correct]


(***************************************************************************)
(* Inputs: the files found at startup and the lines typed at the prompts.  *)
(***************************************************************************)
SmallCatalog == <<Haus, Tisch>>

GoodWords == WordsFile(TRUE, TRUE, SmallCatalog)
OneWord == WordsFile(TRUE, TRUE, <<Lampe>>)
BadWords == WordsFile(TRUE, FALSE, <<>>)
EmptyWords == WordsFile(TRUE, TRUE, <<>>)

\* a record an earlier run saved
SavedStats == Stats(1, 2, 1, MapOf([w \in {"Haus"} |-> 1]))

\* a complete JSON object whose total_questions is a string
MistypedFile ==
    StatsFile(TRUE, TRUE,
              <<Member("total_quizzes", "num", 3, <<>>),
                Member("total_questions", "str", 0, <<>>),
                Member("correct_answers", "num", 5, <<>>),
                Member("word_stats", "obj", 0, <<Pair("Haus", "num", 2)>>)>>)

SavedFile == StatsFile(TRUE, TRUE, Encode(SavedStats))

\* the files a run may find: <<words.json, the fallback words.json, stats.json>>
InitFiles ==
    { <<NoWordsFile, OneWord, NoStatsFile>>,
      <<GoodWords, NoWordsFile, SavedFile>>,
      <<NoWordsFile, OneWord, TruncatedFile>>,
      <<NoWordsFile, OneWord, MistypedFile>>,
      <<NoWordsFile, NoWordsFile, SavedFile>>,
      <<BadWords, GoodWords, SavedFile>>,
      <<EmptyWords, NoWordsFile, NoStatsFile>>,
      <<NoWordsFile, BadWords, SavedFile>>,
      <<NoWordsFile, EmptyWords, TruncatedFile>> }

MenuLines == {"1", "2", "3", "4", "q", "Quit", "exit", "x", ""}
NumLines == {"5", "6", "4", "51", "50", "+7", "-5", "x"}
DifficultyLines == {"1", "2", "easy", "E", "3", "medium", "m", "4", "Hard", "h", "zz", ""}
AnswerLines ==
    {"1", "2", "3", "die", "der", "das", "f", "r", "m", "s", "n", "fem", "masc", "neut",
     "feminine", "masculine", "neuter", " Der", "DAS", "q", "quit", "exit", "?", "h",
     "hint", "skip", "x", ""}

NoSession == SessionStats(0, 0, <<>>)

\* what getInput returns at a prompt whose lines are Lines: each line, with a
\* newline or as the last text before the input closes, and the closed input
Reads(Lines) == {getInput(text, err) : text \in Lines \cup {"", " "}, err \in BOOLEAN}
MenuReads == Reads(MenuLines)
NumReads == Reads(NumLines)
DifficultyReads == Reads(DifficultyLines)
AnswerReads == Reads(AnswerLines)

(***************************************************************************)
(* The state after NewQuiz.                                                *)
(***************************************************************************)
Init ==
    /\ \E f \in InitFiles : wordsFile = f[1] /\ altWordsFile = f[2] /\ statsFile = f[3]
    /\ words = <<>>
    /\ stats = NewQuizStats
    /\ sessionStats = NoSession
    /\ num = 0
    /\ difficulty = ""
    /\ fn = ""
    /\ shuffled = <<>>
    /\ numQuestions = 0
    /\ i = 0
    /\ answered = 0
    /\ msg = ""
    /\ listing = <<>>
    /\ pc = "setup"
    /\ mainExit = ""
    /\ sigpc = "none"
    /\ sigbuf = <<>>
    /\ term = "running"

files == <<wordsFile, altWordsFile, statsFile>>
locals == <<num, difficulty, fn, shuffled, numQuestions, i, answered>>
signal == <<sigpc, sigbuf>>

\* The process ends: both goroutines are gone, and of its memory only the
\* record as it was at that moment is kept, beside the files.
ProcessEnds(how) ==
    /\ term' = how
    /\ pc' = "ended"
    /\ sigpc' = "ended"
    /\ sigbuf' = <<>>
    /\ words' = <<>>
    /\ sessionStats' = NoSession
    /\ num' = 0
    /\ difficulty' = ""
    /\ fn' = ""
    /\ shuffled' = <<>>
    /\ numQuestions' = 0
    /\ i' = 0
    /\ answered' = 0
    /\ mainExit' = ""
    /\ UNCHANGED <<files, stats>>

(***************************************************************************)
(* main: startup.                                                          *)
(***************************************************************************)
setupSignalHandler ==
    /\ term = "running" /\ pc = "setup"
    /\ sigpc' = "wait"
    /\ pc' = "loadWords"
    /\ UNCHANGED <<files, words, stats, sessionStats, locals, msg, listing, mainExit, sigbuf, term>>

\* LoadWords; on an error main prints it and returns, which ends the process
LoadWords ==
    /\ term = "running" /\ pc = "loadWords"
    /\ LET r == LoadWordsResult(wordsFile, altWordsFile)
       IN  IF r.err # ""
           THEN /\ ProcessEnds("catalog_error")
                /\ listing' = <<>>
                /\ msg' = "error_loading_words"
           ELSE /\ words' = r.words
                /\ pc' = "loadStats"
                /\ listing' = <<>>
                /\ msg' = ""
                /\ UNCHANGED <<files, stats, sessionStats, locals, mainExit, signal, term>>

\* LoadStats up to the return of Decode
LoadStatsDecode ==
    /\ term = "running" /\ pc = "loadStats"
    /\ IF ~statsFile.exists
       THEN /\ stats' = ensureStatsDefaults(stats)
            /\ pc' = "welcome"
       ELSE LET r == Decode(statsFile, stats)
            IN  /\ stats' = r.st
                /\ pc' = IF r.err THEN "loadStats_err" ELSE "loadStats_defaults"
    /\ listing' = <<>>
    /\ msg' = ""
    /\ UNCHANGED <<files, words, sessionStats, locals, mainExit, signal, term>>

KeepDecoded(st) == st
\* q.stats = &Stats{} after a failed Decode
LoadStatsReset(st) == ZeroStats

\* LoadStats as a whole: the record it leaves in q.stats, from the record of NewQuiz
LoadStatsResult(file) ==
    IF ~file.exists THEN ensureStatsDefaults(NewQuizStats)
    ELSE LET r == Decode(file, NewQuizStats)
         IN  ensureStatsDefaults(IF r.err THEN LoadStatsReset(r.st) ELSE r.st)

LoadStatsError ==
    /\ term = "running" /\ pc = "loadStats_err"
    /\ stats' = LoadStatsReset(stats)
    /\ listing' = <<>>
    /\ msg' = "could_not_parse_stats"
    /\ pc' = "loadStats_defaults"
    /\ UNCHANGED <<files, words, sessionStats, locals, mainExit, signal, term>>

LoadStatsDefaults ==
    /\ term = "running" /\ pc = "loadStats_defaults"
    /\ stats' = ensureStatsDefaults(stats)
    /\ pc' = "welcome"
    /\ listing' = <<>>
    /\ msg' = ""
    /\ UNCHANGED <<files, words, sessionStats, locals, mainExit, signal, term>>

ShowWelcome ==
    /\ term = "running" /\ pc = "welcome"
    /\ listing' = <<>>
    /\ msg' = WelcomeNotice(stats)
    /\ pc' = "menu"
    /\ UNCHANGED <<files, words, stats, sessionStats, locals, mainExit, signal, term>>


(***************************************************************************)
(* main: the menu loop.  A session is started only while fewer than        *)
(* MaxQuizzes sessions have been folded into the record.                   *)
(***************************************************************************)
MayStart == stats.TotalQuizzes < MaxQuizzes

\* the frame of a step of main that touches nothing but pc and msg
MenuFrame == UNCHANGED <<files, words, stats, sessionStats, mainExit, signal, term>>

\* StartQuiz up to the call of Shuffle
StartQuiz(n, d) ==
    LET av == AvailableWords(words, d)
    IN  /\ num' = n
        /\ difficulty' = d
        /\ fn' = "StartQuiz"
        /\ answered' = 0
        /\ IF Len(av.pool) = 0
           THEN /\ listing' = <<>>
                /\ msg' = "no_words_available"
                /\ pc' = "menu"
                /\ shuffled' = <<>>
                /\ numQuestions' = 0
                /\ i' = 0
           ELSE /\ listing' = <<>>
                /\ msg' = IF av.notice THEN "no_words_for_difficulty" ELSE ""
                /\ numQuestions' = Clamp(n, Len(av.pool))
                /\ shuffled' = av.pool
                /\ i' = Len(av.pool) - 1
                /\ pc' = "shuffle"

\* strings.ToLower(choice) in RunGameLoop
MenuChoice == [line \in {in.line : in \in MenuReads} |-> ToLower(line)]

\* The cases of the switch in RunGameLoop on a line read at the menu.
MenuQuickOn(line) ==
    /\ MayStart
    /\ MenuChoice[line] = "1"
    /\ StartQuiz(QuickQuestions, "")
    /\ MenuFrame

MenuQuick ==
    /\ term = "running" /\ pc = "menu"
    /\ \E in \in MenuReads : ~in.closed /\ MenuQuickOn(in.line)

MenuCustomOn(line) ==
    /\ MayStart
    /\ MenuChoice[line] = "2"
    /\ pc' = "custom_num"
    /\ listing' = <<>>
    /\ msg' = ""
    /\ MenuFrame
    /\ UNCHANGED locals

MenuCustom ==
    /\ term = "running" /\ pc = "menu"
    /\ \E in \in MenuReads : ~in.closed /\ MenuCustomOn(in.line)

\* ShowDetailedStats prints and changes nothing
MenuStatsOn(line) ==
    /\ MenuChoice[line] = "3"
    /\ msg' = StatsNotice(stats)
    /\ listing' \in (IF stats.TotalQuestions = 0 THEN {<<>>} ELSE MostMissed(stats, words))
    /\ pc' = "menu"
    /\ MenuFrame
    /\ UNCHANGED locals

MenuStats ==
    /\ term = "running" /\ pc = "menu"
    /\ \E in \in MenuReads : ~in.closed /\ MenuStatsOn(in.line)

\* ShowPracticeMode up to the call of Shuffle
MenuPracticeOn(line) ==
    /\ MayStart
    /\ MenuChoice[line] = "4"
    /\ LET ch == Challenging(words, stats)
           pw == PracticeWords(ch, stats)
       IN  IF Len(ch) = 0
           THEN /\ listing' = <<>>
                /\ msg' = "no_mistakes_to_practice"
                /\ pc' = "menu"
                /\ UNCHANGED locals
           ELSE /\ listing' = <<>>
                /\ msg' = ""
                /\ fn' = "ShowPracticeMode"
                /\ shuffled' = pw
                /\ numQuestions' = Clamp(PracticeQuestions, Len(pw))
                /\ i' = Len(pw) - 1
                /\ pc' = "shuffle"
                /\ UNCHANGED <<num, difficulty, answered>>
    /\ MenuFrame

MenuPractice ==
    /\ term = "running" /\ pc = "menu"
    /\ \E in \in MenuReads : ~in.closed /\ MenuPracticeOn(in.line)

\* main returns from RunGameLoop and runs the deferred SaveStats
MenuQuitOn(line) ==
    /\ MenuChoice[line] \in {"q", "quit", "exit"}
    /\ listing' = <<>>
    /\ msg' = ""
    /\ pc' = "save_create"
    /\ mainExit' = "quit"
    /\ UNCHANGED <<files, words, stats, sessionStats, locals, signal, term>>

MenuQuit ==
    /\ term = "running" /\ pc = "menu"
    /\ \E in \in MenuReads : ~in.closed /\ MenuQuitOn(in.line)

MenuInvalidOn(line) ==
    /\ MenuChoice[line] \notin {"1", "2", "3", "4", "q", "quit", "exit"}
    /\ listing' = <<>>
    /\ msg' = ""
    /\ pc' = "menu"
    /\ MenuFrame
    /\ UNCHANGED locals

MenuInvalid ==
    /\ term = "running" /\ pc = "menu"
    /\ \E in \in MenuReads : ~in.closed /\ MenuInvalidOn(in.line)

\* one pass of the loop of RunGameLoop on a line
RunGameLoop(line) ==
    \/ MenuQuickOn(line) \/ MenuCustomOn(line) \/ MenuStatsOn(line)
    \/ MenuPracticeOn(line) \/ MenuQuitOn(line) \/ MenuInvalidOn(line)

InputClosedSkipsSave ==
    /\ term = "running" /\ pc \in {"menu", "custom_num", "custom_diff", "ask"}
    /\ listing' = <<>>
    /\ msg' = "input_closed"
    /\ pc' = "save_done"
    /\ mainExit' = "input_closed"
    /\ UNCHANGED <<files, words, stats, sessionStats, locals, signal, term>>
\* getInput at any prompt with the input closed: SaveStats, then os.Exit
InputClosed ==
    /\ term = "running" /\ pc \in {"menu", "custom_num", "custom_diff", "ask"}
    /\ \E in \in MenuReads \cup NumReads \cup DifficultyReads \cup AnswerReads : in.closed
    /\ listing' = <<>>
    /\ msg' = "input_closed"
    /\ pc' = "save_create"
    /\ mainExit' = "input_closed"
    /\ UNCHANGED <<files, words, stats, sessionStats, locals, signal, term>>

(***************************************************************************)
(* ShowCustomMenu.                                                         *)
(***************************************************************************)
\* strconv.Atoi(numStr) in ShowCustomMenu
Number == [line \in {in.line : in \in NumReads} |-> Atoi(line)]

\* a configuration step that gives up on a bad number and returns to the menu
CustomNumRejects(line) ==
    /\ LET r == Number[line]
           bad == ~r.ok \/ r.val < CustomMin \/ r.val > CustomMax
       IN  /\ num' = IF bad THEN num ELSE r.val
           /\ listing' = <<>>
           /\ msg' = IF bad THEN "invalid_number" ELSE ""
           /\ pc' = IF bad THEN "menu" ELSE "custom_diff"
    /\ MenuFrame
    /\ UNCHANGED <<difficulty, fn, shuffled, numQuestions, i, answered>>

\* ShowCustomMenu on the line read for the number of questions
CustomNumOn(line) ==
    /\ LET r == Number[line]
           bad == ~r.ok \/ r.val < CustomMin \/ r.val > CustomMax
       IN  /\ num' = IF bad THEN CustomDefault ELSE r.val
           /\ listing' = <<>>
           /\ msg' = IF bad THEN "invalid_number" ELSE ""
    /\ pc' = "custom_diff"
    /\ MenuFrame
    /\ UNCHANGED <<difficulty, fn, shuffled, numQuestions, i, answered>>

CustomNum ==
    /\ term = "running" /\ pc = "custom_num"
    /\ \E in \in NumReads : ~in.closed /\ CustomNumOn(in.line)

DifficultyOf(line) ==
    LET c == ToLower(line)
    IN  IF c \in {"2", "easy", "e"} THEN "easy"
        ELSE IF c \in {"3", "medium", "m"} THEN "medium"
        ELSE IF c \in {"4", "hard", "h"} THEN "hard"
        ELSE ""

\* the difficulty ShowCustomMenu passes on
Chosen == [line \in {in.line : in \in DifficultyReads} |-> DifficultyOf(line)]

\* ShowCustomMenu on the line read for the difficulty
CustomDifficultyOn(line) ==
    /\ StartQuiz(num, Chosen[line])
    /\ MenuFrame

CustomDifficulty ==
    /\ term = "running" /\ pc = "custom_diff"
    /\ \E in \in DifficultyReads : ~in.closed /\ CustomDifficultyOn(in.line)


(***************************************************************************)
(* The session: shuffle, questions, results.                               *)
(***************************************************************************)
\* one round of rng.Shuffle: for i := n-1; i > 0; i-- { j := rng in [0, i]; swap(i, j) }
ShuffleStep ==
    /\ term = "running" /\ pc = "shuffle" /\ i > 0
    /\ \E j \in 0..i : shuffled' = Swap(shuffled, i, j)
    /\ i' = i - 1
    /\ UNCHANGED <<files, words, stats, sessionStats, num, difficulty, fn, numQuestions,
                   answered, msg, listing, pc, mainExit, signal, term>>

\* "Reset session stats" and the entry of the question loop; the arguments of
\* StartQuiz are not read again
ResetSession ==
    /\ term = "running" /\ pc = "shuffle" /\ i <= 0
    /\ sessionStats' = SessionStats(0, numQuestions, <<>>)
    /\ answered' = 0
    /\ i' = 0
    /\ num' = 0
    /\ difficulty' = ""
    /\ pc' = IF 0 < numQuestions THEN "ask" ELSE "results"
    /\ UNCHANGED <<files, words, stats, fn, shuffled, numQuestions, msg, listing, mainExit, signal,
                   term>>

\* the answer read by askQuestion, and parseArticle of it
Answer == [line \in {in.line : in \in AnswerReads} |-> TrimSpace(ToLower(line))]
Parsed == [line \in {in.line : in \in AnswerReads} |-> parseArticle(Answer[line])]

\* askQuestion returned true: answered++, i++ and the loop test
NextQuestion ==
    /\ answered' = answered + 1
    /\ i' = i + 1
    /\ pc' = IF i + 1 < numQuestions THEN "ask" ELSE "results"

AskFrame == UNCHANGED <<files, words, num, difficulty, fn, shuffled, numQuestions,
                        mainExit, signal, term>>

\* The cases of askQuestion on a line read at "Your answer: ".
AskQuitOn(line) ==
    /\ Answer[line] \in {"q", "quit", "exit"}
    /\ sessionStats' = EarlyExit(sessionStats, answered)
    /\ listing' = <<>>
    /\ msg' = ""
    /\ pc' = "results"
    /\ UNCHANGED <<stats, i, answered>>
    /\ AskFrame

AskQuit ==
    /\ term = "running" /\ pc = "ask"
    /\ \E in \in AnswerReads : ~in.closed /\ AskQuitOn(in.line)

AskHintOn(line) ==
    /\ Answer[line] \in {"?", "h", "hint"}
    /\ listing' = <<>>
    /\ msg' = ""
    /\ UNCHANGED <<stats, sessionStats, i, answered, pc>>
    /\ AskFrame

AskHint ==
    /\ term = "running" /\ pc = "ask"
    /\ \E in \in AnswerReads : ~in.closed /\ AskHintOn(in.line)

AskSkipOn(line) ==
    /\ Answer[line] \in {"s", "skip"}
    /\ sessionStats' = markWrongSession(sessionStats, shuffled[i + 1], "(skip)")
    /\ stats' = markWrongStats(stats, shuffled[i + 1])
    /\ listing' = <<>>
    /\ msg' = ""
    /\ NextQuestion
    /\ AskFrame

AskSkip ==
    /\ term = "running" /\ pc = "ask"
    /\ \E in \in AnswerReads : ~in.closed /\ AskSkipOn(in.line)

AskInvalidConsumes(line) ==
    /\ Answer[line] \notin {"q", "quit", "exit", "?", "h", "hint", "s", "skip"}
    /\ ~Parsed[line].ok
    /\ listing' = <<>>
    /\ msg' = ""
    /\ UNCHANGED <<stats, sessionStats>>
    /\ NextQuestion
    /\ AskFrame
AskInvalidOn(line) ==
    /\ Answer[line] \notin {"q", "quit", "exit", "?", "h", "hint", "s", "skip"}
    /\ ~Parsed[line].ok
    /\ listing' = <<>>
    /\ msg' = ""
    /\ UNCHANGED <<stats, sessionStats, i, answered, pc>>
    /\ AskFrame

AskInvalid ==
    /\ term = "running" /\ pc = "ask"
    /\ \E in \in AnswerReads : ~in.closed /\ AskInvalidOn(in.line)

AskAnswerOn(line) ==
    /\ LET a == Answer[line]
           r == Parsed[line]
           w == shuffled[i + 1]
       IN  /\ a \notin {"q", "quit", "exit", "?", "h", "hint", "s", "skip"}
           /\ r.ok
           /\ IF r.article = w.Article
              THEN /\ sessionStats' = [sessionStats EXCEPT !.correct = @ + 1]
                   /\ listing' = <<>>
                   /\ msg' = ""
                   /\ UNCHANGED stats
              ELSE /\ sessionStats' = markWrongSession(sessionStats, w, r.article)
                   /\ stats' = markWrongStats(stats, w)
                   /\ listing' = <<>>
                   /\ msg' = ""
    /\ NextQuestion
    /\ AskFrame

AskAnswer ==
    /\ term = "running" /\ pc = "ask"
    /\ \E in \in AnswerReads : ~in.closed /\ AskAnswerOn(in.line)

\* askQuestion on a line
askQuestion(line) ==
    \/ AskQuitOn(line) \/ AskHintOn(line) \/ AskSkipOn(line)
    \/ AskInvalidOn(line) \/ AskAnswerOn(line)

\* the locals of a function that has returned; q.sessionStats is written again
\* by the next session before anything reads it
Return ==
    /\ sessionStats' = NoSession
    /\ num' = 0
    /\ difficulty' = ""
    /\ fn' = ""
    /\ shuffled' = <<>>
    /\ numQuestions' = 0
    /\ i' = 0
    /\ answered' = 0

ResultsFrame == UNCHANGED <<files, words, mainExit, signal, term>>

\* showResults with total = 0
ShowResultsNoAnswers ==
    /\ term = "running" /\ pc = "results" /\ sessionStats.total = 0
    /\ listing' = <<>>
    /\ msg' = "no_answers_recorded"
    /\ pc' = "menu"
    /\ Return
    /\ UNCHANGED stats
    /\ ResultsFrame

\* showResults: the score, then q.stats.TotalQuizzes++
ShowResultsQuizzes ==
    /\ term = "running" /\ pc = "results" /\ sessionStats.total # 0
    /\ stats' = AddQuizzes(stats)
    /\ listing' = <<>>
    /\ msg' = Printed("score", Percentage(sessionStats.correct, sessionStats.total))
    /\ pc' = "fold_questions"
    /\ UNCHANGED <<locals, sessionStats>>
    /\ ResultsFrame

\* q.stats.TotalQuestions += q.sessionStats.total
ShowResultsQuestions ==
    /\ term = "running" /\ pc = "fold_questions"
    /\ stats' = AddQuestions(stats, sessionStats)
    /\ pc' = "fold_correct"
    /\ listing' = <<>>
    /\ msg' = ""
    /\ UNCHANGED <<locals, sessionStats>>
    /\ ResultsFrame

\* q.stats.CorrectAnswers += q.sessionStats.correct, and the return to the menu
ShowResultsCorrect ==
    /\ term = "running" /\ pc = "fold_correct"
    /\ stats' = AddCorrect(stats, sessionStats)
    /\ pc' = "menu"
    /\ Return
    /\ listing' = <<>>
    /\ msg' = ""
    /\ ResultsFrame

(***************************************************************************)
(* SaveStats on the main goroutine, and the end of the process.            *)
(***************************************************************************)
SaveFrame == UNCHANGED <<wordsFile, altWordsFile, words, stats, sessionStats, locals, msg, listing,
                         mainExit, signal, term>>

\* os.Create truncates the file
MainSaveCreate ==
    /\ term = "running" /\ pc = "save_create"
    /\ statsFile' = TruncatedFile
    /\ pc' = "save_write"
    /\ SaveFrame

\* Encode writes the whole record with one Write
MainSaveWrite ==
    /\ term = "running" /\ pc = "save_write"
    /\ statsFile' = StatsFile(TRUE, TRUE, Encode(stats))
    /\ pc' = "save_done"
    /\ SaveFrame

\* main returns (quit) or calls os.Exit (input closed)
MainExit ==
    /\ term = "running" /\ pc = "save_done"
    /\ ProcessEnds(mainExit)
    /\ listing' = <<>>
    /\ msg' = ""

(***************************************************************************)
(* The signal goroutine: <-c, SaveStats, os.Exit.  It reads the record     *)
(* field by field while the main goroutine runs on.                        *)
(***************************************************************************)
SigFrame == UNCHANGED <<wordsFile, altWordsFile, words, stats, sessionStats, locals, msg, listing,
                        pc, mainExit, term>>

SignalArrives ==
    /\ term = "running" /\ sigpc = "wait"
    /\ sigpc' = "create"
    /\ UNCHANGED <<statsFile, sigbuf>>
    /\ SigFrame

SigSaveCreate ==
    /\ term = "running" /\ sigpc = "create"
    /\ statsFile' = TruncatedFile
    /\ sigpc' = "encode"
    /\ sigbuf' = <<>>
    /\ SigFrame

\* the encoder appends the next field of *q.stats to its buffer
SigSaveEncode ==
    /\ term = "running" /\ sigpc = "encode" /\ Len(sigbuf) < Len(Encode(stats))
    /\ sigbuf' = Append(sigbuf, Encode(stats)[Len(sigbuf) + 1])
    /\ UNCHANGED <<statsFile, sigpc>>
    /\ SigFrame

\* the encoder is about to range over WordStats while main is at a question,
\* where markWrong writes the map: the Go runtime may detect the concurrent
\* map access and end the process with a fatal error, stats.json still empty
SigMapFault ==
    /\ term = "running" /\ sigpc = "encode" /\ Len(sigbuf) = 3 /\ pc = "ask"
    /\ ProcessEnds("fatal")
    /\ listing' = <<>>
    /\ msg' = ""

SigSaveWrite ==
    /\ term = "running" /\ sigpc = "encode" /\ Len(sigbuf) = Len(Encode(stats))
    /\ statsFile' = StatsFile(TRUE, TRUE, sigbuf)
    /\ sigpc' = "exit"
    /\ UNCHANGED sigbuf
    /\ SigFrame

SigExit ==
    /\ term = "running" /\ sigpc = "exit"
    /\ ProcessEnds("signal")
    /\ listing' = <<>>
    /\ msg' = ""

(***************************************************************************)
(* The program.                                                            *)
(***************************************************************************)
Next ==
    \/ setupSignalHandler \/ LoadWords \/ LoadStatsDecode \/ LoadStatsError
    \/ LoadStatsDefaults \/ ShowWelcome
    \/ MenuQuick \/ MenuCustom \/ MenuStats \/ MenuPractice \/ MenuQuit \/ MenuInvalid
    \/ InputClosed \/ CustomNum \/ CustomDifficulty
    \/ ShuffleStep \/ ResetSession
    \/ AskQuit \/ AskHint \/ AskSkip \/ AskInvalid \/ AskAnswer
    \/ ShowResultsNoAnswers \/ ShowResultsQuizzes \/ ShowResultsQuestions
    \/ ShowResultsCorrect
    \/ MainSaveCreate \/ MainSaveWrite \/ MainExit
    \/ SignalArrives \/ SigSaveCreate \/ SigSaveEncode \/ SigMapFault \/ SigSaveWrite
    \/ SigExit

Spec == Init /\ [][Next]_vars

\* The main goroutine, once in SaveStats on its way out, runs on to the end of
\* the process: it waits for nothing there.
SpecExit ==
    /\ Init /\ [][Next]_vars
    /\ WF_vars(MainSaveCreate) /\ WF_vars(MainSaveWrite) /\ WF_vars(MainExit)

(***************************************************************************)
(* The choice of questions on larger catalogs: the program without a       *)
(* signal, from startup to the first MaxAsked questions of one session.    *)
(***************************************************************************)
MaxAsked == 1

SixWords == <<Haus, Tisch, Lampe, Auto, Blume, Hund>>
FourWords == <<Haus, Tisch, Lampe, Auto>>
TwiceHaus == <<Haus, Tisch, Haus>>

\* records of earlier runs: many mistakes on four words; one on Haus and some
\* on a word that is no longer in the catalog
ManyMistakes ==
    Stats(1, 20, 10, MapOf([w \in {"Haus", "Tisch", "Lampe", "Auto"} |->
                              IF w = "Tisch" THEN 5 ELSE IF w = "Auto" THEN 1 ELSE 2]))
FewMistakes == Stats(1, 5, 1, MapOf([w \in {"Haus", "Katze"} |-> IF w = "Haus" THEN 1 ELSE 3]))
\* mistakes on seven words, four of them no longer in the catalog
ThreeWords == <<Haus, Tisch, Lampe>>
SevenMissed ==
    Stats(1, 30, 13,
          MapOf([w \in Keys |-> IF w = "Katze" THEN 4
                                ELSE IF w \in {"Tisch", "Auto"} THEN 3
                                ELSE IF w = "Haus" THEN 1 ELSE 2]))

SelFiles ==
    { <<WordsFile(TRUE, TRUE, SixWords), NoWordsFile, NoStatsFile>>,
      <<WordsFile(TRUE, TRUE, FourWords), NoWordsFile,
        StatsFile(TRUE, TRUE, Encode(ManyMistakes))>>,
      <<NoWordsFile, WordsFile(TRUE, TRUE, TwiceHaus),
        StatsFile(TRUE, TRUE, Encode(FewMistakes))>>,
      <<WordsFile(TRUE, TRUE, ThreeWords), NoWordsFile,
        StatsFile(TRUE, TRUE, Encode(SevenMissed))>> }

InitSel ==
    /\ \E f \in SelFiles : wordsFile = f[1] /\ altWordsFile = f[2] /\ statsFile = f[3]
    /\ words = <<>>
    /\ stats = NewQuizStats
    /\ sessionStats = NoSession
    /\ num = 0
    /\ difficulty = ""
    /\ fn = ""
    /\ shuffled = <<>>
    /\ numQuestions = 0
    /\ i = 0
    /\ answered = 0
    /\ msg = ""
    /\ listing = <<>>
    /\ pc = "setup"
    /\ mainExit = ""
    /\ sigpc = "none"
    /\ sigbuf = <<>>
    /\ term = "running"

\* the first questions of the session
FirstQuestions == answered < MaxAsked /\ (AskSkip \/ AskAnswer)

NextSel ==
    \/ setupSignalHandler \/ LoadWords \/ LoadStatsDecode \/ LoadStatsDefaults \/ ShowWelcome
    \/ MenuQuick \/ MenuCustom \/ MenuStats \/ MenuPractice \/ CustomNum \/ CustomDifficulty
    \/ ShuffleStep \/ ResetSession \/ FirstQuestions

SpecSel == InitSel /\ [][NextSel]_vars

(***************************************************************************)
(* Properties of the program with the signal goroutine (Spec).             *)
(***************************************************************************)
Startup == {"setup", "loadWords", "loadStats", "loadStats_err", "loadStats_defaults"}
Loaded == pc \notin Startup \cup {"ended"}
Saving == {"create", "encode", "exit"}
Totals(st) == <<st.TotalQuizzes, st.TotalQuestions, st.CorrectAnswers>>

\* C1: once the record is loaded from files in which correctAnswers <=
\* totalQuestions, correctAnswers <= totalQuestions holds in every state of the
\* main loop and of its sessions, folded, quit early or under way, and in the
\* record the main goroutine leaves at its exit.
C1_CorrectAtMostTotal ==
    (Loaded \/ term \in {"quit", "input_closed"}) =>
        stats.CorrectAnswers <= stats.TotalQuestions

\* a session of two questions quit after one correct answer has been folded
\* into a record that held 1 quiz, 2 questions, 1 correct
C1_FoldedAfterQuit ==
    /\ pc = "menu"
    /\ Totals(stats) = <<2, 3, 2>>

\* C2 as stated: every session that reaches its results, also one quit before
\* any answer, adds 1 to totalQuizzes.
C2_EverySessionCounts ==
    [][(pc = "results" /\ pc' \notin {"results", "ended"}) =>
           stats'.TotalQuizzes = stats.TotalQuizzes + 1]_vars

\* C2 amended: while a session runs the totals do not change; a session that
\* reaches its results with k >= 1 answered questions adds 1 to totalQuizzes,
\* then k to totalQuestions, then the number answered without a mistake to
\* correctAnswers, and returns to the menu; one that reaches them with no
\* answered question returns to the menu with the totals as they were.
C2_AnsweredSessionsCount ==
    [][LET Q == stats.TotalQuizzes
           T == stats.TotalQuestions
           C == stats.CorrectAnswers
           main == pc' \notin {pc, "ended"}
       IN  /\ pc \in {"custom_num", "custom_diff", "shuffle", "ask"} =>
                  Totals(stats') = Totals(stats)
           /\ (pc \in {"results", "fold_questions", "fold_correct"} /\ ~main) =>
                  Totals(stats') = Totals(stats)
           /\ (pc = "results" /\ main /\ answered = 0) =>
                  (Totals(stats') = Totals(stats) /\ pc' = "menu")
           /\ (pc = "results" /\ main /\ answered > 0) =>
                  (Totals(stats') = <<Q + 1, T, C>> /\ pc' = "fold_questions")
           /\ (pc = "fold_questions" /\ main) =>
                  (Totals(stats') = <<Q, T + answered, C>> /\ pc' = "fold_correct")
           /\ (pc = "fold_correct" /\ main) =>
                  /\ Totals(stats') = <<Q, T, C + (answered - Len(sessionStats.mistakes))>>
                  /\ pc' = "menu"]_vars

\* a session quit after its first answer is being folded
C2_QuitAfterFirstAnswer ==
    /\ pc = "fold_questions"
    /\ answered = 1
    /\ numQuestions = 2

\* C3: when the process has ended on one of the three exit paths, stats.json
\* holds the complete record as it was in memory at that moment.
C3_ExitLeavesRecord ==
    term \in {"quit", "input_closed", "signal"} =>
        statsFile = StatsFile(TRUE, TRUE, Encode(stats))

\* C4: once the signal goroutine has started to save, the main loop does not
\* change the record, and the signal goroutine does not start to save between
\* the three updates that fold one session.
C4_SignalSaveAloneWithRecord ==
    [][/\ (Loaded /\ sigpc \in Saving) => stats' = stats
       /\ (sigpc = "wait" /\ sigpc' = "create") =>
              pc \notin {"fold_questions", "fold_correct"}]_vars

\* the runs that find the saved record of an earlier run in stats.json
SavedAtStart ==
    \E f \in InitFiles : f[1] = wordsFile /\ f[2] = altWordsFile /\ f[3] = SavedFile

\* C5: until the statistics are loaded, and when loading the catalog has
\* failed, the valid stats.json of an earlier run is as that run left it.
C5_NoWriteBeforeLoad ==
    (SavedAtStart /\ (pc \in {"setup", "loadWords", "loadStats"} \/ term = "catalog_error")) =>
        statsFile = SavedFile

\* C9: the record the main goroutine has saved, loaded again by LoadStats,
\* is the record in memory: the same three totals and the same mistake counts.
C9_SaveThenLoad ==
    (pc = "save_done" /\ sigpc = "wait") =>
        LET r == LoadStatsResult(statsFile)
        IN  /\ Totals(r) = Totals(stats)
            /\ DOMAIN r.WordStats.kv = DOMAIN stats.WordStats.kv
            /\ \A k \in DOMAIN stats.WordStats.kv : r.WordStats.kv[k] = stats.WordStats.kv[k]
            /\ ~r.WordStats.isNil

\* a record of two quizzes with mistakes on two words has been saved
C9_SavedTwoWords ==
    /\ pc = "save_done" /\ sigpc = "wait"
    /\ stats.TotalQuizzes = 2
    /\ Cardinality(DOMAIN stats.WordStats.kv) = 2

\* stats.json is missing, is not one JSON value, or holds a value of the wrong type
Unparsable(f) ==
    \/ ~f.exists
    \/ ~f.closed
    \/ \E k \in DOMAIN f.members : f.members[k].kind = "str"

\* C10: with stats.json missing or unparsable, LoadStats leaves the all-zero
\* record with an empty, non-nil mistake map, the process keeps running, and it
\* greets a first-time user at the main menu.
C10_BadStatsLoadAsZero ==
    (sigpc = "wait" /\ Unparsable(statsFile)) =>
        /\ pc = "welcome" =>
               (stats = Stats(0, 0, 0, EmptyMap) /\ term = "running")
        /\ (pc = "menu" /\ msg \in {"welcome", "welcome_back"}) =>
               (stats = Stats(0, 0, 0, EmptyMap) /\ msg = "welcome" /\ term = "running")
        /\ pc \in {"loadStats_err", "loadStats_defaults"} => term = "running"

\* the menu is reached from a stats.json that decodes in part before it fails
C10_MenuAfterMistypedFile ==
    /\ pc = "menu" /\ msg = "welcome"
    /\ statsFile = MistypedFile
    /\ sigpc = "wait"

\* C12: no line shows a percentage of a division by zero; the greeting and
\* the statistics view show an accuracy only of a record with totalQuestions
\* # 0 and report no data (first-time greeting, "no statistics") of a record
\* with totalQuestions = 0; a session that reaches its results with no
\* answered question reports "no answers recorded", any other its score.
C12_NoZeroDenominator ==
    /\ [](/\ msg \notin {"NaN", "Inf"}
          /\ msg \in {"welcome_back", "accuracy"} => stats.TotalQuestions # 0
          /\ msg \in {"welcome", "no_statistics"} => stats.TotalQuestions = 0
          /\ msg = "score" => sessionStats.total # 0)
    /\ [][/\ (pc = "welcome" /\ pc' = "menu") =>
              msg' = IF stats.TotalQuestions = 0 THEN "welcome" ELSE "welcome_back"
          /\ (pc = "results" /\ pc' \notin {"results", "ended"}) =>
              msg' = IF answered = 0 THEN "no_answers_recorded" ELSE "score"]_vars

\* a session was quit at its first question, with a record that has no
\* question yet either
C12_EmptySessionReported ==
    /\ pc = "menu" /\ msg = "no_answers_recorded"
    /\ stats.TotalQuestions = 0

\* the question being asked
Asked == shuffled[i + 1]

\* the question is consumed and the session goes on to the next or to its results
Consumed ==
    /\ answered' = answered + 1
    /\ i' = i + 1
    /\ pc' = IF i + 1 < numQuestions THEN "ask" ELSE "results"
    /\ <<shuffled, numQuestions, fn>>' = <<shuffled, numQuestions, fn>>

\* one mistake with user answer ua is recorded on the question being asked
Mistaken(ua) ==
    /\ sessionStats'.mistakes =
           Append(sessionStats.mistakes,
                  [word |-> Asked, userAnswer |-> ua, correctAnswer |-> Asked.Article])
    /\ sessionStats'.correct = sessionStats.correct
    /\ sessionStats'.total = sessionStats.total
    /\ DOMAIN stats'.WordStats.kv = DOMAIN stats.WordStats.kv \cup {Asked.Word}
    /\ \A k \in DOMAIN stats'.WordStats.kv :
           stats'.WordStats.kv[k] = MapGet(stats.WordStats, k) + (IF k = Asked.Word THEN 1 ELSE 0)
    /\ Totals(stats') = Totals(stats)

\* the question being asked is graded with the answer taken as article a
GradedAs(a) ==
    /\ Consumed
    /\ IF a = Asked.Article
       THEN /\ sessionStats' = [sessionStats EXCEPT !.correct = @ + 1]
            /\ stats' = stats
       ELSE Mistaken(a)

\* C13: at the answer prompt each of der, die, das is taken, and every step
\* on it grades the question: the right article adds 1 to the session's
\* correct count and changes no mistake count, a wrong one records one
\* mistake with that answer and adds 1 to the count of the word asked and to
\* no other; "skip" records one mistake with answer "(skip)" in the same way;
\* all consume the question.
C13_GradingOneQuestion ==
    (term = "running" /\ pc = "ask") =>
        /\ \A a \in {"der", "die", "das"} :
               /\ ENABLED askQuestion(a)
               /\ ~ENABLED (askQuestion(a) /\ ~GradedAs(a))
        /\ ENABLED askQuestion("skip")
        /\ ~ENABLED (askQuestion("skip") /\ ~(Consumed /\ Mistaken("(skip)")))

\* the second question of a session is asked after a mistake on the first
C13_SecondQuestionAsked ==
    /\ term = "running" /\ pc = "ask"
    /\ i = 1
    /\ Len(sessionStats.mistakes) = 1

\* nothing but the printed output changes
NothingChanges ==
    <<files, words, stats, sessionStats, locals, pc, mainExit, signal, term>>' =
        <<files, words, stats, sessionStats, locals, pc, mainExit, signal, term>>

\* C14: at the answer prompt a hint request (?, h, hint) and a line that is
\* no command and no article ("x", the empty line) are taken and change
\* nothing: the same question is asked again, with the session, its mistakes
\* and the record as they were; at the menu a line that is no choice is
\* taken and changes nothing, the menu is shown again.
C14_InvalidAndHintChangeNothing ==
    /\ (term = "running" /\ pc = "ask") =>
           \A line \in {"?", "h", "hint", "x", ""} :
               /\ ENABLED askQuestion(line)
               /\ ~ENABLED (askQuestion(line) /\ ~NothingChanges)
    /\ (term = "running" /\ pc = "menu") =>
           \A line \in {"x", ""} :
               /\ ENABLED RunGameLoop(line)
               /\ ~ENABLED (RunGameLoop(line) /\ ~NothingChanges)

\* a question is asked in a session with a correct answer and a mistake so far
C14_PromptMidSession ==
    /\ term = "running" /\ pc = "ask"
    /\ sessionStats.correct = 1
    /\ Len(sessionStats.mistakes) = 1

\* the aliases parseArticle lists, with two spellings in other case or with
\* a blank in front
Aliases ==
    [die |-> {"1", "die", "f", "fem", "feminine"},
     der |-> {"2", "der", "r", "m", "masc", "masculine", " Der"},
     das |-> {"3", "das", "s", "n", "neut", "neuter", "DAS"}]

\* C15: at the answer prompt every alias of an article, typed as a line, is
\* taken and every step on it grades the question with that article as the
\* answer.
C15_AliasesGraded ==
    (term = "running" /\ pc = "ask") =>
        \A a \in DOMAIN Aliases : \A text \in Aliases[a] :
            LET line == getInput(text, FALSE).line
            IN  /\ ENABLED askQuestion(line)
                /\ ~ENABLED (askQuestion(line) /\ ~GradedAs(a))

\* C16: at the menu, when no catalog word has a positive mistake count,
\* choosing practice mode is answered by the notice that there is nothing to
\* practice; no question is asked, the record, the session and the stats
\* file stay as they are, and the program is back at the menu.
NoneMissed == \A k \in 1..Len(words) : MapGet(stats.WordStats, words[k].Word) = 0

NothingToPractice ==
    /\ pc' = "menu"
    /\ msg' = "no_mistakes_to_practice"
    /\ UNCHANGED <<stats, sessionStats, files, locals, mainExit, term>>

C16_NothingToPractice ==
    (term = "running" /\ pc = "menu" /\ NoneMissed) =>
        /\ MayStart => ENABLED RunGameLoop("4")
        /\ ~ENABLED (RunGameLoop("4") /\ ~NothingToPractice)

\* practice mode was chosen after a session without a mistake on a word of
\* the catalog, and the menu is shown again
C16_PracticeRefused ==
    /\ pc = "menu" /\ msg = "no_mistakes_to_practice"
    /\ stats.TotalQuestions > 0 /\ NoneMissed

\* C18: in the custom configuration every line typed for the number of
\* questions is accepted: an integer in 5..50 is taken, anything else is
\* replaced by 10, and the difficulty is asked next; every line typed for the
\* difficulty starts a session of at least one question, with the filter the
\* line names and with no filter when the line names none; neither step goes
\* back to the menu or changes the record.
Requested(line) ==
    IF line = "5" THEN 5 ELSE IF line = "6" THEN 6 ELSE IF line = "50" THEN 50
    ELSE IF line = "+7" THEN 7 ELSE 10

Filter(line) ==
    IF line \in {"2", "E"} THEN "easy"
    ELSE IF line = "medium" THEN "medium"
    ELSE IF line = "Hard" THEN "hard" ELSE ""

NumberTaken(n) ==
    /\ num' = n
    /\ pc' = "custom_diff"
    /\ UNCHANGED <<stats, sessionStats, files, mainExit, term>>

SessionStarted(d) ==
    /\ pc' = "shuffle"
    /\ difficulty' = d
    /\ numQuestions' = Min(num, Len(shuffled'))
    /\ numQuestions' > 0
    /\ d = "" => shuffled' = words
    /\ UNCHANGED <<stats, files, mainExit, term>>

C18_CustomConfigRecovers ==
    /\ (term = "running" /\ pc = "custom_num") =>
           \A line \in {"5", "6", "4", "51", "50", "+7", "-5", "x", ""} :
               /\ ENABLED CustomNumOn(line)
               /\ ~ENABLED (CustomNumOn(line) /\ ~NumberTaken(Requested(line)))
    /\ (term = "running" /\ pc = "custom_diff") =>
           /\ num \in CustomMin..CustomMax
           /\ \A line \in {"1", "2", "E", "medium", "Hard", "zz", ""} :
                  /\ ENABLED CustomDifficultyOn(line)
                  /\ ~ENABLED (CustomDifficultyOn(line) /\ ~SessionStarted(Filter(line)))
    /\ (term = "running" /\ pc = "shuffle") => numQuestions > 0

\* the number typed was not usable, 10 is used and the difficulty is asked
C18_DefaultTaken ==
    /\ term = "running" /\ pc = "custom_diff"
    /\ msg = "invalid_number" /\ num = 10

\* C19: while showResults folds a session into the record, the session's
\* total is its number of correct answers plus its number of recorded
\* mistakes, whether the session ran to its end or was ended by quit.
Folding == {"results", "fold_questions", "fold_correct"}

C19_SessionTotalsAgree ==
    (term = "running" /\ pc \in Folding) =>
        sessionStats.total = sessionStats.correct + Len(sessionStats.mistakes)

\* a session ended by quit, after a correct answer and a mistake, is folded
C19_QuitSessionFolded ==
    /\ pc = "fold_questions"
    /\ sessionStats.total < numQuestions
    /\ sessionStats.correct > 0 /\ Len(sessionStats.mistakes) > 0

\* C20: in a run that starts from the zero record, every complete record
\* written to stats.json holds mistake counts whose sum is its totalQuestions
\* minus its correctAnswers.  Stated for the writes of the main goroutine
\* while no signal has arrived (quit at the menu, input closed at a prompt);
\* what a save by the signal goroutine writes is the matter of C3, C4 and C5.
FromZero ==
    \A f \in InitFiles :
        (f[1] = wordsFile /\ f[2] = altWordsFile) =>
            LoadStatsResult(f[3]) = Stats(0, 0, 0, EmptyMap)

RECURSIVE SumOver(_, _)
SumOver(kv, S) ==
    IF S = {} THEN 0
    ELSE LET k == CHOOSE x \in S : TRUE
         IN  kv[k] + SumOver(kv, S \ {k})

MistakeSum(st) == SumOver(st.WordStats.kv, DOMAIN st.WordStats.kv)

C20_SavedCountsMatchTotals ==
    [][(FromZero /\ sigpc = "wait" /\ statsFile' # statsFile /\ statsFile'.closed) =>
            LET r == LoadStatsResult(statsFile')
            IN  MistakeSum(r) = r.TotalQuestions - r.CorrectAnswers]_vars

Prompts == {"menu", "custom_num", "custom_diff", "ask"}

\* C11: the input can close at each of the four prompts; when it does, main
\* goes to SaveStats with the record, the session and its locals as they
\* are, asks nothing more, has written the record when it ends the process
\* (it is in stats.json then, unless a signal arrived), and does end it.
\* After startup the process ends only from main's exit after "quit" at the
\* menu or after the input closed, or after a signal has arrived.
C11_InputClosureExits ==
    /\ [](term = "running" /\ pc \in Prompts => ENABLED InputClosed)
    /\ [][/\ (mainExit = "" /\ mainExit' = "input_closed") =>
              /\ pc \in Prompts /\ pc' = "save_create"
              /\ <<stats, sessionStats, locals>>' = <<stats, sessionStats, locals>>
          /\ (mainExit = "" /\ mainExit' = "quit") => pc = "menu"
          /\ mainExit = "input_closed" =>
              /\ stats' = stats
              /\ pc' \in {"save_create", "save_write", "save_done", "ended"}
              /\ pc' # "ended" => <<sessionStats, locals>>' = <<sessionStats, locals>>
          /\ (term = "running" /\ term' = "input_closed") =>
              /\ pc = "save_done" /\ mainExit = "input_closed"
              /\ sigpc = "wait" => statsFile' = StatsFile(TRUE, TRUE, Encode(stats'))
          /\ (term = "running" /\ term' # "running" /\ Loaded) =>
              \/ pc = "save_done" /\ mainExit \in {"quit", "input_closed"} /\ term' = mainExit
              \/ sigpc \in Saving /\ term' \in {"signal", "fatal"}]_vars
    /\ (mainExit = "input_closed") ~> (term # "running")

\* the input closed at the second question of a session, after a mistake on
\* Tisch; the record with that mistake is in stats.json
C11_ClosedAtSecondQuestion ==
    /\ term = "input_closed"
    /\ Totals(stats) = <<1, 2, 1>>
    /\ MapGet(stats.WordStats, "Tisch") = 1
    /\ statsFile = StatsFile(TRUE, TRUE, Encode(stats))

(***************************************************************************)
(* Properties of the choice of questions (SpecSel).                        *)
(***************************************************************************)
Count(s, x) == Cardinality({k \in DOMAIN s : s[k] = x})
UniqueTerms(ws) == \A a, b \in DOMAIN ws : ws[a].Word = ws[b].Word => a = b

\* the positions of the catalog whose difficulty is d, ignoring case
Matching(ws, d) == {k \in DOMAIN ws : ToLower(ws[k].Difficulty) = ToLower(d)}

\* C6: in a quick or custom quiz over a catalog with unique terms, when the
\* shuffle is done, the questions (the first numQuestions entries of shuffled)
\* are min(requested, |pool|) many, pairwise different, and all of the pool,
\* the pool being the matching entries or, without a filter or a match, the
\* catalog.
C6_UniformQuestions ==
    (pc = "shuffle" /\ i <= 0 /\ fn = "StartQuiz" /\ UniqueTerms(words)) =>
        LET M == Matching(words, difficulty)
            P == IF difficulty = "" \/ M = {} THEN {words[k] : k \in DOMAIN words}
                 ELSE {words[k] : k \in M}
        IN  /\ numQuestions = Min(num, Cardinality(P))
            /\ numQuestions <= Len(shuffled)
            /\ \A a, b \in 1..numQuestions : shuffled[a] = shuffled[b] => a = b
            /\ \A a \in 1..numQuestions : shuffled[a] \in P

\* five questions were requested of the three easy words of six
C6_FiveOfThreeEasy ==
    /\ pc = "shuffle" /\ i <= 0 /\ fn = "StartQuiz"
    /\ num = 5 /\ difficulty = "easy"
    /\ Len(words) = 6
    /\ numQuestions = 3

\* C7: with a difficulty requested, the pool being shuffled holds exactly the
\* entries of that difficulty (ignoring case) when there is one, without the
\* notice; when there is none it holds the whole catalog, the notice was
\* printed, and the session runs with min(requested, |catalog|) questions.
C7_FilterOrFallback ==
    (pc = "shuffle" /\ fn = "StartQuiz" /\ difficulty # "") =>
        LET M == Matching(words, difficulty)
        IN  IF M # {}
            THEN /\ \A k \in DOMAIN shuffled : \E j \in M : words[j] = shuffled[k]
                 /\ \A j \in DOMAIN words :
                        Count(shuffled, words[j]) =
                            Cardinality({k \in M : words[k] = words[j]})
                 /\ msg # "no_words_for_difficulty"
            ELSE /\ Len(shuffled) = Len(words)
                 /\ \A j \in DOMAIN words : Count(shuffled, words[j]) = Count(words, words[j])
                 /\ msg = "no_words_for_difficulty"
                 /\ numQuestions = Min(num, Len(words))
                 /\ numQuestions > 0
                 /\ term = "running"

\* "hard" was requested of six words none of which is hard
C7_NoHardWords ==
    /\ pc = "shuffle" /\ i <= 0 /\ fn = "StartQuiz"
    /\ difficulty = "hard"
    /\ Len(shuffled) = 6
    /\ msg = "no_words_for_difficulty"

\* the mistakes the running session has made on term t, and the lifetime count
\* of t when the session started
SessionMisses(t) ==
    Cardinality({k \in DOMAIN sessionStats.mistakes : sessionStats.mistakes[k].word.Word = t})
StartCount(t) == MapGet(stats.WordStats, t) - SessionMisses(t)

Shown == {listing[k].Word : k \in 1..Len(listing)}
Catalog == {words[k].Word : k \in 1..Len(words)}

ListedFromTop ==
    LET m == stats.WordStats
        P == Missed(m)
    IN  /\ \A k \in 1..Len(listing) :
               /\ listing[k].Word \in P
               /\ listing[k].errors = m.kv[listing[k].Word]
        /\ \A a, b \in 1..Len(listing) : a < b => listing[a].errors >= listing[b].errors
        /\ Len(listing) = Cardinality(Shown)
        /\ \E T \in SUBSET P :
               /\ Cardinality(T) = Min(TopWords, Cardinality(P))
               /\ \A t \in T : \A x \in P \ T : m.kv[t] >= m.kv[x]
               /\ Shown = T \cap Catalog

C17_MostMissedListing ==
    /\ [](listing # <<>> => (pc = "menu" /\ msg = "accuracy" /\ ListedFromTop))
    /\ [][listing' # <<>> => (stats' = stats /\ sessionStats' = sessionStats)]_vars

\* seven words were missed; of the five entries of highest count only Tisch
\* is in the catalog, so Lampe and Haus, missed too, are not shown
C17_OnlyTischShown ==
    /\ listing = <<[Article |-> "der", Word |-> "Tisch", errors |-> 3]>>
    /\ Cardinality(Missed(stats.WordStats)) > TopWords
    /\ {"Haus", "Lampe"} \subseteq Catalog \cap Missed(stats.WordStats)

====
